---- MODULE Spec2Model ----
(***************************************************************************)
(* html_snapshot.py: render a local HTML file to PNG through Playwright.   *)
(*                                                                         *)
(* The model follows main() statement by statement.  Every call into the   *)
(* outside world (file system, installer subprocess, Playwright) is one    *)
(* step that either returns or raises; which of the two happens is the     *)
(* environment's choice.  The tool is run twice in sequence with the same  *)
(* argv over the same file system.                                         *)
(***************************************************************************)
EXTENDS Integers, Sequences, FiniteSets

VARIABLES
    argv,         \* the command line, the same for both runs
    run,          \* "first" or "second" invocation of the tool
    pc,           \* position of the running invocation inside main()
    args,         \* <<>> or <<namespace>> returned by parse_args
    html_path,    \* <<>> or <<path>>: main's local html_path
    output_path,  \* <<>> or <<path>>: main's local output_path
    exc,          \* exception in flight inside the try block ("" = none)
    outcome,      \* how main ended: [kind, code, exc]
    calls,        \* the external calls made by this run, in order: [op, ok]
    page,         \* arguments the page object received from this run
    stderr,       \* messages printed to standard error by this run
    stdout,       \* messages printed to standard output by this run
    fs_files,     \* files that exist
    fs_dirs,      \* directories that exist (sequences of components from /)
    browsers_dir, \* what default_browsers_path() points at
    fs_start,     \* the file system when this run started
    fs_init,      \* the file system before the first run
    first         \* <<>> or <<what the first run left behind>>

vars == <<argv, run, pc, args, html_path, output_path, exc, outcome, calls,
          page, stderr, stdout, fs_files, fs_dirs, browsers_dir, fs_start,
          fs_init, first>>

----------------------------------------------------------------------------
(* Paths.  A path is [abs, dirs, name]; name is the final component split  *)
(* at its dots, so <<"page", "html">> is page.html and <<"", "html">> is   *)
(* the hidden file .html.                                                  *)

cwd == <<"work">>

Path(abs, dirs, name) == [abs |-> abs, dirs |-> dirs, name |-> name]

\* Path.resolve(): an absolute path is kept, a relative one is anchored at
\* the current directory.
resolve(p) ==
    IF p.abs THEN p ELSE Path(TRUE, cwd \o p.dirs, p.name)

Front(s) == SubSeq(s, 1, Len(s) - 1)

\* PurePath.suffix is non-empty iff the last dot of the name is neither its
\* first nor its last character.
has_suffix(name) ==
    /\ Len(name) >= 2
    /\ name[Len(name)] # ""
    /\ ~(Len(name) = 2 /\ name[1] = "")

\* with_suffix that appends to the whole name, <html_path>.png.
with_suffix_append(p, ext) == Path(p.abs, p.dirs, p.name \o <<ext>>)

\* Path.with_suffix(".png"): replace the suffix, or append when there is none.
with_suffix(p, ext) ==
    IF has_suffix(p.name)
    THEN Path(p.abs, p.dirs, Front(p.name) \o <<ext>>)
    ELSE Path(p.abs, p.dirs, p.name \o <<ext>>)

\* Path.parent of a file path: its directory.
parent(p) == p.dirs

\* Path.exists()
exists(p) == p \in fs_files

\* The directories mkdir(parents=True) has to make sure of.
Prefixes(d) == { SubSeq(d, 1, n) : n \in 0..Len(d) }

\* Path.as_uri(): only an absolute path has a file URI.
as_uri(p) == [scheme |-> "file", path |-> p]

----------------------------------------------------------------------------
(* Command line.  Option values arrive as text; <<>> is an omitted option. *)

DefaultWidth == 1400
DefaultHeight == 900
DefaultDelay == 0

\* argparse type=int: int(token), which rejects text that is no integer.
IsInt(tok) == tok \in {"1400", "900", "0", "-1", "-5", "2"}
int(tok) ==
    CASE tok = "1400" -> 1400
      [] tok = "900"  -> 900
      [] tok = "0"    -> 0
      [] tok = "-1"   -> -1
      [] tok = "-5"   -> -5
      [] tok = "2"    -> 2

\* argparse type=float: float(token).  A delay is held in units of 1/10000 s
\* so that a delay below one millisecond can be told from zero.
IsFloat(tok) == tok \in {"0.0", "-1", "0.0004", "2.5"}
float(tok) ==
    CASE tok = "0.0"    -> 0
      [] tok = "-1"     -> -10000
      [] tok = "0.0004" -> 4
      [] tok = "2.5"    -> 25000

\* int(delay * 1000) for a delay > 0: whole milliseconds, fraction dropped.
millis(delay) == delay \div 10

HtmlArgs ==
    { Path(FALSE, <<>>, <<"page", "html">>),
      Path(TRUE, <<"srv">>, <<"index">>),
      Path(FALSE, <<"docs">>, <<"", "html">>) }

OutputArgs ==
    { <<>>,
      << Path(FALSE, <<"out", "img">>, <<"custom", "png">>) >>,
      << Path(TRUE, <<"shots">>, <<"slide", "png">>) >> }

WidthArgs  == { <<>>, <<"0">>, <<"abc">> }
HeightArgs == { <<>>, <<"-5">> }
DelayArgs  == { <<>>, <<"-1">>, <<"0.0004">>, <<"2.5">>, <<"soon">> }

Argv ==
    [ html_path : HtmlArgs, output : OutputArgs, width : WidthArgs,
      height : HeightArgs, delay : DelayArgs,
      no_full_page : BOOLEAN, no_auto_install : BOOLEAN ]

\* parse_args accepts the command line iff every typed option converts.
Parses(a) ==
    /\ a.width = <<>> \/ IsInt(a.width[1])
    /\ a.height = <<>> \/ IsInt(a.height[1])
    /\ a.delay = <<>> \/ IsFloat(a.delay[1])

\* The namespace parse_args returns.
Namespace(a) ==
    [ html_path |-> a.html_path,
      output |-> a.output,
      width  |-> IF a.width = <<>> THEN DefaultWidth ELSE int(a.width[1]),
      height |-> IF a.height = <<>> THEN DefaultHeight ELSE int(a.height[1]),
      delay  |-> IF a.delay = <<>> THEN DefaultDelay ELSE float(a.delay[1]),
      no_full_page |-> a.no_full_page,
      no_auto_install |-> a.no_auto_install ]

----------------------------------------------------------------------------
(* Outcomes of main.                                                       *)

Running == [kind |-> "running", code |-> 0, exc |-> ""]
Return(n) == [kind |-> "return", code |-> n, exc |-> ""]
SystemExit(n) == [kind |-> "SystemExit", code |-> n, exc |-> ""]
Raise(e) == [kind |-> "raise", code |-> 1, exc |-> e]

\* The process status raise SystemExit(main()) ends with: main's return
\* value, argparse's SystemExit code, or 1 for an uncaught exception.
ExitStatus(o) == o.code

MsgNotFound == "Error: HTML file not found"
MsgInstalling == "Chromium runtime not found; installing"
MsgSaved == "Saved screenshot"
ErrMissing == "RuntimeError: Chromium browser binaries are missing"
ErrNoCli == "RuntimeError: Playwright CLI not found"
ErrInstall == "RuntimeError: Automatic Chromium install failed."

NoPage ==
    [ viewport |-> <<>>, url |-> <<>>, wait_until |-> <<>>, timeout |-> <<>>,
      shot_path |-> <<>>, full_page |-> <<>> ]

Call(op, ok) == [op |-> op, ok |-> ok]

FsNow == [files |-> fs_files, dirs |-> fs_dirs, browsers |-> browsers_dir]

----------------------------------------------------------------------------
Init ==
    /\ argv \in Argv
    /\ run = "first"
    /\ pc = "parse_args"
    /\ args = <<>>
    /\ html_path = <<>>
    /\ output_path = <<>>
    /\ exc = ""
    /\ outcome = Running
    /\ calls = <<>>
    /\ page = NoPage
    /\ stderr = <<>>
    /\ stdout = <<>>
    /\ fs_files \in { {}, {resolve(argv.html_path)} }
    /\ fs_dirs = Prefixes(cwd) \cup Prefixes(resolve(argv.html_path).dirs)
    /\ browsers_dir \in {"absent", "empty", "chromium"}
    /\ fs_start = FsNow
    /\ fs_init = FsNow
    /\ first = <<>>

Finish(o) ==
    /\ pc' = "done"
    /\ outcome' = o

Log(op, ok) == calls' = Append(calls, Call(op, ok))

\* RaiseInTry without the finally clause: the exception leaves main at once.
RaiseInTry_NoFinally(op) ==
    /\ exc' = op
    /\ pc' = "exit_with"

\* RaiseInTry with the page closed on the way out, as a try/finally around
\* the page would do.
RaiseInTry_ClosePage(op) ==
    /\ exc' = op
    /\ pc' = "page_close"

\* lines 138-149: an exception raised inside the try block reaches the
\* finally clause before it leaves main.
RaiseInTry(op) ==
    /\ exc' = op
    /\ pc' = "finally"

\* ParseArgs that falls back to the default for an option it cannot convert.
ParseArgs_Lenient ==
    /\ pc = "parse_args"
    /\ LET a == [argv EXCEPT
                   !.width = IF Parses([argv EXCEPT !.height = <<>>,
                                                     !.delay = <<>>])
                             THEN @ ELSE <<>>,
                   !.height = IF Parses([argv EXCEPT !.width = <<>>,
                                                      !.delay = <<>>])
                              THEN @ ELSE <<>>,
                   !.delay = IF Parses([argv EXCEPT !.width = <<>>,
                                                     !.height = <<>>])
                             THEN @ ELSE <<>>] IN
         args' = <<Namespace(a)>>
    /\ pc' = "check_input"
    /\ UNCHANGED <<argv, run, html_path, output_path, exc, calls, page, stderr,
                   stdout, fs_files, fs_dirs, browsers_dir, fs_start, fs_init,
                   first, outcome>>

\* line 124: args = parse_args(argv); argparse exits 2 on a bad option value
ParseArgs ==
    /\ pc = "parse_args"
    /\ IF Parses(argv)
       THEN /\ args' = <<Namespace(argv)>>
            /\ pc' = "check_input"
            /\ UNCHANGED outcome
       ELSE /\ Finish(SystemExit(2))
            /\ UNCHANGED args
    /\ UNCHANGED <<argv, run, html_path, output_path, exc, calls, page, stderr,
                   stdout, fs_files, fs_dirs, browsers_dir, fs_start, fs_init,
                   first>>

\* line 131: --output resolved, or the input path with its suffix replaced
ResolveOutput(a, hp) ==
    IF a.output # <<>> THEN resolve(a.output[1]) ELSE with_suffix(hp, "png")

\* CheckInput without the exists() test.
CheckInput_NoExistsCheck ==
    /\ pc = "check_input"
    /\ LET hp == resolve(args[1].html_path) IN
         /\ html_path' = <<hp>>
         /\ output_path' = <<ResolveOutput(args[1], hp)>>
         /\ pc' = "mkdir"
    /\ UNCHANGED <<argv, run, args, exc, calls, page, stdout, fs_files,
                   fs_dirs, browsers_dir, fs_start, fs_init, first, stderr,
                   outcome>>

\* lines 126-131: resolve the input, stop with 1 when it does not exist,
\* otherwise settle the output path
CheckInput ==
    /\ pc = "check_input"
    /\ LET hp == resolve(args[1].html_path) IN
         /\ html_path' = <<hp>>
         /\ IF ~exists(hp)
            THEN /\ stderr' = Append(stderr, MsgNotFound)
                 /\ Finish(Return(1))
                 /\ UNCHANGED output_path
            ELSE /\ output_path' = <<ResolveOutput(args[1], hp)>>
                 /\ pc' = "mkdir"
                 /\ UNCHANGED <<stderr, outcome>>
    /\ UNCHANGED <<argv, run, args, exc, calls, page, stdout, fs_files,
                   fs_dirs, browsers_dir, fs_start, fs_init, first>>

\* line 132: output_path.parent.mkdir(parents=True, exist_ok=True).  It can
\* only fail when there is a directory left to create.
Mkdir ==
    /\ pc = "mkdir"
    /\ LET need == Prefixes(parent(output_path[1])) IN
       \E ok \in BOOLEAN :
         /\ ok \/ ~(need \subseteq fs_dirs)
         /\ Log("mkdir", ok)
         /\ IF ok
            THEN /\ fs_dirs' = fs_dirs \cup need
                 /\ pc' = "ensure"
                 /\ UNCHANGED outcome
            ELSE /\ Finish(Raise("OSError: mkdir"))
                 /\ UNCHANGED fs_dirs
    /\ UNCHANGED <<argv, run, args, html_path, output_path, exc, page, stderr,
                   stdout, fs_files, browsers_dir, fs_start, fs_init, first>>

\* lines 75-79: the browsers directory exists and holds a chromium-* entry
chromium_installed == browsers_dir = "chromium"

\* EnsureCheck that goes on to install whatever --no-auto-install says.
EnsureCheck_IgnoreFlag ==
    /\ pc = "ensure"
    /\ Log("chromium_installed", TRUE)
    /\ pc' = IF chromium_installed THEN "sync_playwright" ELSE "which"
    /\ UNCHANGED <<argv, run, args, html_path, output_path, exc, page, stderr,
                   stdout, fs_files, fs_dirs, browsers_dir, fs_start, fs_init,
                   first, outcome>>

\* lines 83-89: ensure_chromium_installed up to the auto_install test
EnsureCheck ==
    /\ pc = "ensure"
    /\ Log("chromium_installed", TRUE)
    /\ IF chromium_installed
       THEN /\ pc' = "sync_playwright"
            /\ UNCHANGED outcome
       ELSE IF args[1].no_auto_install
       THEN Finish(Raise(ErrMissing))
       ELSE /\ pc' = "which"
            /\ UNCHANGED outcome
    /\ UNCHANGED <<argv, run, args, html_path, output_path, exc, page, stderr,
                   stdout, fs_files, fs_dirs, browsers_dir, fs_start, fs_init,
                   first>>

\* lines 90-97: shutil.which("playwright"), then the notice on stderr
Which ==
    /\ pc = "which"
    /\ \E found \in BOOLEAN :
         /\ Log("which", found)
         /\ IF found
            THEN /\ stderr' = Append(stderr, MsgInstalling)
                 /\ pc' = "install"
                 /\ UNCHANGED outcome
            ELSE /\ Finish(Raise(ErrNoCli))
                 /\ UNCHANGED stderr
    /\ UNCHANGED <<argv, run, args, html_path, output_path, exc, page, stdout,
                   fs_files, fs_dirs, browsers_dir, fs_start, fs_init, first>>

\* What a run of the installer can leave where default_browsers_path() points.
\* The installer is another program: the code sees its exit status only.  A
\* zero status usually comes with a chromium-* entry, but not when the
\* installer keeps its browsers elsewhere (PLAYWRIGHT_BROWSERS_PATH=0 makes
\* default_browsers_path() the relative path 0, which nothing populates); a
\* non-zero status can leave a partial download behind.
InstallerLeaves(res) ==
    CASE res = "ok"                 -> {"chromium", browsers_dir}
      [] res = "CalledProcessError" -> {browsers_dir, "empty", "chromium"}
      [] res = "OSError"            -> {browsers_dir}

\* Install with check=False: the installer's exit status is ignored.
Install_Unchecked ==
    /\ pc = "install"
    /\ \E res \in {"ok", "CalledProcessError", "OSError"} :
         /\ Log("install", res = "ok")
         /\ browsers_dir' \in InstallerLeaves(res)
         /\ IF res = "OSError"
            THEN Finish(Raise("OSError: subprocess"))
            ELSE /\ pc' = "sync_playwright"
                 /\ UNCHANGED outcome
    /\ UNCHANGED <<argv, run, args, html_path, output_path, exc, page, stderr,
                   stdout, fs_files, fs_dirs, fs_start, fs_init, first>>

\* lines 98-103: subprocess.run([...], check=True); CalledProcessError is
\* wrapped in RuntimeError, anything else propagates as it is
Install ==
    /\ pc = "install"
    /\ \E res \in {"ok", "CalledProcessError", "OSError"} :
         /\ Log("install", res = "ok")
         /\ browsers_dir' \in InstallerLeaves(res)
         /\ CASE res = "ok" -> /\ pc' = "sync_playwright"
                               /\ UNCHANGED outcome
              [] res = "CalledProcessError" -> Finish(Raise(ErrInstall))
              [] res = "OSError" -> Finish(Raise("OSError: subprocess"))
    /\ UNCHANGED <<argv, run, args, html_path, output_path, exc, page, stderr,
                   stdout, fs_files, fs_dirs, fs_start, fs_init, first>>

\* line 136: with sync_playwright() as p
SyncPlaywright ==
    /\ pc = "sync_playwright"
    /\ \E ok \in BOOLEAN :
         /\ Log("sync_playwright", ok)
         /\ IF ok
            THEN /\ pc' = "launch"
                 /\ UNCHANGED outcome
            ELSE Finish(Raise("Error: sync_playwright"))
    /\ UNCHANGED <<argv, run, args, html_path, output_path, exc, page, stderr,
                   stdout, fs_files, fs_dirs, browsers_dir, fs_start, fs_init,
                   first>>

\* line 137: browser = p.chromium.launch(); a failure is outside the try
\* block and leaves through the with statement
Launch ==
    /\ pc = "launch"
    /\ \E ok \in BOOLEAN :
         /\ Log("launch", ok)
         /\ IF ok
            THEN /\ pc' = "new_page"
                 /\ UNCHANGED exc
            ELSE /\ pc' = "exit_with"
                 /\ exc' = "launch"
    /\ UNCHANGED <<argv, run, args, html_path, output_path, outcome, page,
                   stderr, stdout, fs_files, fs_dirs, browsers_dir, fs_start,
                   fs_init, first>>

\* line 115: page = browser.new_page(viewport={"width": w, "height": h})
NewPage ==
    /\ pc = "new_page"
    /\ page' = [page EXCEPT !.viewport =
                  <<[width |-> args[1].width, height |-> args[1].height]>>]
    /\ \E ok \in BOOLEAN :
         /\ Log("new_page", ok)
         /\ IF ok
            THEN /\ pc' = "goto"
                 /\ UNCHANGED exc
            ELSE RaiseInTry("new_page")
    /\ UNCHANGED <<argv, run, args, html_path, output_path, outcome, stderr,
                   stdout, fs_files, fs_dirs, browsers_dir, fs_start, fs_init,
                   first>>

\* line 116: page.goto(html_path.as_uri(), wait_until="networkidle")
Goto ==
    /\ pc = "goto"
    /\ page' = [page EXCEPT !.url = <<as_uri(html_path[1])>>,
                            !.wait_until = <<"networkidle">>]
    /\ \E ok \in BOOLEAN :
         /\ Log("goto", ok)
         /\ IF ok
            THEN /\ pc' = "delay"
                 /\ UNCHANGED exc
            ELSE RaiseInTry("goto")
    /\ UNCHANGED <<argv, run, args, html_path, output_path, outcome, stderr,
                   stdout, fs_files, fs_dirs, browsers_dir, fs_start, fs_init,
                   first>>

\* the test written as delay >= 0
wants_pause_ge(delay) == delay >= 0

\* line 117: if delay > 0
wants_pause(delay) == delay > 0

\* lines 117-118: page.wait_for_timeout(int(delay * 1000))
Pause ==
    /\ pc = "delay"
    /\ wants_pause(args[1].delay)
    /\ page' = [page EXCEPT !.timeout = <<millis(args[1].delay)>>]
    /\ \E ok \in BOOLEAN :
         /\ Log("wait_for_timeout", ok)
         /\ IF ok
            THEN /\ pc' = "screenshot"
                 /\ UNCHANGED exc
            ELSE RaiseInTry("wait_for_timeout")
    /\ UNCHANGED <<argv, run, args, html_path, output_path, outcome, stderr,
                   stdout, fs_files, fs_dirs, browsers_dir, fs_start, fs_init,
                   first>>

\* line 117: the test fails and the pause is skipped
NoPause ==
    /\ pc = "delay"
    /\ ~wants_pause(args[1].delay)
    /\ pc' = "screenshot"
    /\ UNCHANGED <<argv, run, args, html_path, output_path, exc, outcome,
                   calls, page, stderr, stdout, fs_files, fs_dirs,
                   browsers_dir, fs_start, fs_init, first>>

\* Screenshot that writes next to the input file and ignores --output.
Screenshot_IgnoreOutput ==
    /\ pc = "screenshot"
    /\ LET target == with_suffix(html_path[1], "png") IN
         /\ page' = [page EXCEPT !.shot_path = <<target>>,
                                 !.full_page = <<~args[1].no_full_page>>]
         /\ \E ok \in BOOLEAN :
              /\ Log("screenshot", ok)
              /\ IF ok
                 THEN /\ fs_files' = fs_files \cup {target}
                      /\ pc' = "page_close"
                      /\ UNCHANGED exc
                 ELSE /\ RaiseInTry("screenshot")
                      /\ UNCHANGED fs_files
    /\ UNCHANGED <<argv, run, args, html_path, output_path, outcome, stderr,
                   stdout, fs_dirs, browsers_dir, fs_start, fs_init, first>>

\* line 119: page.screenshot(path=output_path, full_page=full_page), with
\* full_page = not args.no_full_page (line 146)
Screenshot ==
    /\ pc = "screenshot"
    /\ page' = [page EXCEPT !.shot_path = <<output_path[1]>>,
                            !.full_page = <<~args[1].no_full_page>>]
    /\ \E ok \in BOOLEAN :
         /\ Log("screenshot", ok)
         /\ IF ok
            THEN /\ fs_files' = fs_files \cup {output_path[1]}
                 /\ pc' = "page_close"
                 /\ UNCHANGED exc
            ELSE /\ RaiseInTry("screenshot")
                 /\ UNCHANGED fs_files
    /\ UNCHANGED <<argv, run, args, html_path, output_path, outcome, stderr,
                   stdout, fs_dirs, browsers_dir, fs_start, fs_init, first>>

\* line 120: page.close()
PageClose ==
    /\ pc = "page_close"
    /\ \E ok \in BOOLEAN :
         /\ Log("page.close", ok)
         /\ IF ok
            THEN /\ pc' = "finally"
                 /\ UNCHANGED exc
            ELSE RaiseInTry("page.close")
    /\ UNCHANGED <<argv, run, args, html_path, output_path, outcome, page,
                   stderr, stdout, fs_files, fs_dirs, browsers_dir, fs_start,
                   fs_init, first>>

\* lines 148-149: finally: browser.close(); an exception of its own replaces
\* the one in flight
BrowserClose ==
    /\ pc = "finally"
    /\ \E ok \in BOOLEAN :
         /\ Log("browser.close", ok)
         /\ exc' = IF ok THEN exc ELSE "browser.close"
    /\ pc' = "exit_with"
    /\ UNCHANGED <<argv, run, args, html_path, output_path, outcome, page,
                   stderr, stdout, fs_files, fs_dirs, browsers_dir, fs_start,
                   fs_init, first>>

\* ExitWith that swallows the exception in flight and reports success.
ExitWith_Swallow ==
    /\ pc = "exit_with"
    /\ stdout' = Append(stdout, MsgSaved)
    /\ Finish(Return(0))
    /\ UNCHANGED <<argv, run, args, html_path, output_path, exc, calls, page,
                   stderr, fs_files, fs_dirs, browsers_dir, fs_start, fs_init,
                   first>>

\* lines 136, 151-152: leave the with statement; an exception in flight
\* propagates out of main, otherwise report and return 0
ExitWith ==
    /\ pc = "exit_with"
    /\ IF exc = ""
       THEN /\ stdout' = Append(stdout, MsgSaved)
            /\ Finish(Return(0))
       ELSE /\ Finish(Raise(exc))
            /\ UNCHANGED stdout
    /\ UNCHANGED <<argv, run, args, html_path, output_path, exc, calls, page,
                   stderr, fs_files, fs_dirs, browsers_dir, fs_start, fs_init,
                   first>>

\* The tool is invoked again with the same command line (a new process over
\* the file system the first one left).
SecondRun ==
    /\ pc = "done"
    /\ run = "first"
    /\ first' = <<[outcome |-> outcome, output_path |-> output_path,
                   calls |-> calls]>>
    /\ run' = "second"
    /\ pc' = "parse_args"
    /\ args' = <<>>
    /\ html_path' = <<>>
    /\ output_path' = <<>>
    /\ exc' = ""
    /\ outcome' = Running
    /\ calls' = <<>>
    /\ page' = NoPage
    /\ stderr' = <<>>
    /\ stdout' = <<>>
    /\ fs_start' = FsNow
    /\ UNCHANGED <<argv, fs_files, fs_dirs, browsers_dir, fs_init>>

Next ==
    \/ ParseArgs
    \/ CheckInput
    \/ Mkdir
    \/ EnsureCheck
    \/ Which
    \/ Install
    \/ SyncPlaywright
    \/ Launch
    \/ NewPage
    \/ Goto
    \/ Pause
    \/ NoPause
    \/ Screenshot
    \/ PageClose
    \/ BrowserClose
    \/ ExitWith
    \/ SecondRun

Spec == Init /\ [][Next]_vars
----------------------------------------------------------------------------
(* Reading the record of calls.                                            *)

Count(op) == Cardinality({ i \in DOMAIN calls : calls[i].op = op })
Called(op) == \E i \in DOMAIN calls : calls[i].op = op
Returned(op) == \E i \in DOMAIN calls : calls[i].op = op /\ calls[i].ok
Failed(op) == \E i \in DOMAIN calls : calls[i].op = op /\ ~calls[i].ok
Ended == pc = "done"
CaptureLeft == pc \in {"finally", "exit_with", "done"}

\* the runtime check of this run found a chromium-* entry
PresentAtCheck == fs_start.browsers = "chromium"

----------------------------------------------------------------------------
\* C1: in every run in which p.chromium.launch() returned, browser.close()
\* is called exactly once before main exits, whichever step of
\* capture_screenshot returns or raises; it is never called twice, and never
\* without a launched browser.
C1_BrowserClosedOnEveryExit ==
    /\ Count("browser.close") <= 1
    /\ Called("browser.close") => Returned("launch")
    /\ (Ended /\ Returned("launch")) => Count("browser.close") = 1

\* a run that launched the browser, failed while navigating, has ended and
\* closed the browser
C1_Witness ==
    /\ Ended
    /\ Returned("launch")
    /\ Failed("goto")
    /\ Count("browser.close") = 1

----------------------------------------------------------------------------
\* C2 as stated: once capture_screenshot has exited with a page that
\* new_page returned, page.close() has been called on it, also when goto,
\* wait_for_timeout or screenshot raised.
C2_PageClosedRegardless ==
    (CaptureLeft /\ Returned("new_page")) => Called("page.close")

\* C2 amended: page.close() is called, once, exactly in the runs in which
\* goto, the pause (when there is one) and screenshot all returned; when one
\* of them raises capture_screenshot exits without calling page.close(), and
\* the only cleanup that still happens is main's browser.close().
C2_PageClosedOnlyOnSuccess ==
    /\ Count("page.close") <= 1
    /\ (CaptureLeft /\ Returned("new_page")) =>
         (Called("page.close") <=>
            ~(Failed("goto") \/ Failed("wait_for_timeout") \/ Failed("screenshot")))
    /\ (Ended /\ Returned("new_page") /\ ~Called("page.close")) =>
         Called("browser.close")

\* a run whose screenshot raised: the page was opened and never closed by
\* capture_screenshot, the browser was closed
C2_Witness ==
    /\ Ended
    /\ Returned("new_page")
    /\ Failed("screenshot")
    /\ ~Called("page.close")
    /\ Called("browser.close")

----------------------------------------------------------------------------
\* C3: when the resolved input path does not exist, main reports the error
\* and returns 1 before any other effect: no directory is created, neither
\* the runtime check nor the installer runs, no browser is launched, no file
\* is written.
C3_MissingInputNoEffect ==
    (html_path # <<>> /\ html_path[1] \notin fs_start.files) =>
        /\ calls = <<>>
        /\ FsNow = fs_start
        /\ output_path = <<>>
        /\ stdout = <<>>
        /\ Ended
        /\ outcome = Return(1)
        /\ stderr = <<MsgNotFound>>

\* a run over a missing input has ended
C3_Witness ==
    /\ Ended
    /\ html_path # <<>>
    /\ html_path[1] \notin fs_files
    /\ outcome = Return(1)

----------------------------------------------------------------------------
\* C4: with --no-auto-install and no browser runtime present at the check,
\* the run fails with a non-zero outcome carrying the manual-installation
\* message; the installer is never looked up or invoked and no browser
\* launch is attempted.
C4_NoAutoInstallFails ==
    (/\ args # <<>>
     /\ args[1].no_auto_install
     /\ Called("chromium_installed")
     /\ ~PresentAtCheck) =>
        /\ ~Called("which")
        /\ ~Called("install")
        /\ ~Called("sync_playwright")
        /\ ~Called("launch")
        /\ Ended
        /\ outcome = Raise(ErrMissing)
        /\ ExitStatus(outcome) # 0

\* a run with --no-auto-install found no runtime and has ended
C4_Witness ==
    /\ Ended
    /\ args # <<>>
    /\ args[1].no_auto_install
    /\ Called("chromium_installed")
    /\ browsers_dir # "chromium"
    /\ outcome = Raise(ErrMissing)

----------------------------------------------------------------------------
\* What C5 says about the installer, apart from what a success leaves:
\* it is invoked only when the runtime is absent, auto-install is permitted
\* and the CLI was found; a missing CLI or a failed installer is fatal and no
\* browser is launched.
InstallerDiscipline ==
    /\ Called("which") => (~PresentAtCheck /\ ~args[1].no_auto_install)
    /\ Called("install") =>
         (~PresentAtCheck /\ ~args[1].no_auto_install /\ Returned("which"))
    /\ Failed("which") =>
         (~Called("install") /\ ~Called("launch") /\ Ended
            /\ outcome = Raise(ErrNoCli))
    /\ Failed("install") =>
         (~Called("launch") /\ Ended /\ outcome.kind = "raise"
            /\ ExitStatus(outcome) # 0)

\* C5 as stated: the browser is launched only after the runtime has been
\* verified present: it was present at the check, or the installer ran,
\* succeeded and left the runtime present.
C5_LaunchOnlyWithRuntimePresent ==
    /\ InstallerDiscipline
    /\ Called("launch") =>
         \/ PresentAtCheck
         \/ (Returned("which") /\ Returned("install") /\ chromium_installed)

\* C5 amended: the browser is launched only after the runtime was found at
\* the check, or auto-install was permitted, the CLI was found and the
\* installer exited with status 0; the installer's exit status is all that
\* is verified, the runtime check is not repeated after the install.
C5_LaunchOnlyAfterCheckOrInstall ==
    /\ InstallerDiscipline
    /\ Called("launch") =>
         \/ PresentAtCheck
         \/ (~args[1].no_auto_install /\ Returned("which")
               /\ Returned("install"))
    /\ (~Called("launch") /\ Returned("install")) =>
         pc \in {"sync_playwright", "launch", "done"}

\* a browser launched after a successful automatic install
C5_Witness ==
    /\ ~PresentAtCheck
    /\ Returned("install")
    /\ Returned("launch")

----------------------------------------------------------------------------
\* C6: main's outcome is 0 only on success, with the screenshot written to
\* the output path and the browser closed; it is 1 when the input file does
\* not exist; every failure in the runtime check, the install, the launch,
\* the navigation or the capture gives a non-zero outcome.
C6_ZeroOnlyOnSuccess ==
    Ended =>
        /\ ExitStatus(outcome) = 0 =>
             /\ outcome = Return(0)
             /\ \A i \in DOMAIN calls : calls[i].ok
             /\ Returned("screenshot")
             /\ output_path # <<>>
             /\ page.shot_path = output_path
             /\ output_path[1] \in fs_files
             /\ Returned("browser.close")
             /\ stdout = <<MsgSaved>>
        /\ (html_path # <<>> /\ html_path[1] \notin fs_start.files) =>
             outcome = Return(1)
        /\ (\E i \in DOMAIN calls : ~calls[i].ok) => ExitStatus(outcome) # 0
        /\ (Called("chromium_installed") /\ ~Called("sync_playwright")) =>
             ExitStatus(outcome) # 0
        /\ outcome # Running

\* a successful run
C6_Witness ==
    /\ Ended
    /\ outcome = Return(0)
    /\ Returned("screenshot")
    /\ Returned("browser.close")

----------------------------------------------------------------------------
\* The output path each command line of the model stands for, written out:
\*   --output out/img/custom.png  ->  /work/out/img/custom.png
\*   --output /shots/slide.png    ->  /shots/slide.png
\*   page.html                    ->  /work/page.png
\*   /srv/index                   ->  /srv/index.png
\*   docs/.html                   ->  /work/docs/.html.png
ExpectedOutput ==
    CASE argv.output = << Path(FALSE, <<"out", "img">>, <<"custom", "png">>) >> ->
           Path(TRUE, <<"work", "out", "img">>, <<"custom", "png">>)
      [] argv.output = << Path(TRUE, <<"shots">>, <<"slide", "png">>) >> ->
           Path(TRUE, <<"shots">>, <<"slide", "png">>)
      [] argv.output = <<>> /\ argv.html_path.name = <<"page", "html">> ->
           Path(TRUE, <<"work">>, <<"page", "png">>)
      [] argv.output = <<>> /\ argv.html_path.name = <<"index">> ->
           Path(TRUE, <<"srv">>, <<"index", "png">>)
      [] argv.output = <<>> /\ argv.html_path.name = <<"", "html">> ->
           Path(TRUE, <<"work", "docs">>, <<"", "html", "png">>)

Ancestors(p) == { SubSeq(p.dirs, 1, n) : n \in 0..Len(p.dirs) }

----------------------------------------------------------------------------
\* What the tool itself may add to the file system: the output file and the
\* directories above it.
OutputPaths ==
    { output_path[i] : i \in DOMAIN output_path }
      \cup UNION { { r.output_path[i] : i \in DOMAIN r.output_path } :
                     r \in { first[k] : k \in DOMAIN first } }

OnlyOutputAdded ==
    /\ (fs_files \ fs_init.files) \subseteq OutputPaths
    /\ \A d \in fs_dirs \ fs_init.dirs :
         \E p \in OutputPaths : d \in Prefixes(parent(p))

BothRunsEnded == run = "second" /\ Ended

NoStepFailed(cs) == \A i \in DOMAIN cs : cs[i].ok

----------------------------------------------------------------------------
\* C9 as stated: a run whose --width or --height is not a positive integer,
\* or whose --delay is negative, reaches neither the browser launch nor
\* browser.new_page.
C9_RangeValidatedBeforeLaunch ==
    (Called("launch") \/ Called("new_page")) =>
        /\ args[1].width > 0
        /\ args[1].height > 0
        /\ args[1].delay >= 0

\* C9 amended: the only validation is the conversion of the option text: a
\* run whose --width or --height is not an integer or whose --delay is not a
\* number exits with status 2 before any effect; integers and numbers of any
\* sign are passed through unchanged, so a zero or negative width or height
\* reaches browser.new_page and a negative delay only skips the pause.
C9_OnlyTypeValidated ==
    /\ (argv.width = <<"abc">> \/ argv.delay = <<"soon">>) =>
         /\ calls = <<>>
         /\ FsNow = fs_start
         /\ args = <<>>
         /\ Ended => outcome = SystemExit(2)
    /\ (Ended /\ outcome = SystemExit(2)) =>
         (argv.width = <<"abc">> \/ argv.delay = <<"soon">>)
    /\ Called("new_page") =>
         /\ argv.width = <<"0">> => page.viewport[1].width = 0
         /\ argv.width = <<>> => page.viewport[1].width = 1400
         /\ argv.height = <<"-5">> => page.viewport[1].height = -5
         /\ argv.height = <<>> => page.viewport[1].height = 900
    /\ (Called("screenshot") /\ argv.delay = <<"-1">>) =>
         ~Called("wait_for_timeout")

\* a page opened with width 0 and height -5
C9_Witness ==
    /\ Returned("new_page")
    /\ page.viewport = <<[width |-> 0, height |-> -5]>>
    /\ argv.delay = <<"-1">>
    /\ Returned("screenshot")

----------------------------------------------------------------------------
\* The place of each call in the single pass of main.
Rank(op) ==
    CASE op = "mkdir"              -> 1
      [] op = "chromium_installed" -> 2
      [] op = "which"              -> 3
      [] op = "install"            -> 4
      [] op = "sync_playwright"    -> 5
      [] op = "launch"             -> 6
      [] op = "new_page"           -> 7
      [] op = "goto"               -> 8
      [] op = "wait_for_timeout"   -> 9
      [] op = "screenshot"         -> 10
      [] op = "page.close"         -> 11
      [] op = "browser.close"      -> 12

InCapture(op) == Rank(op) \in 7..11

\* C10: a run is a single forward pass without retries: no call is made
\* twice (installer, launch and screenshot at most once); inside
\* capture_screenshot the calls come in the order new_page with the
\* requested viewport, goto of the file URI waiting for network idle, the
\* pause iff delay > 0, screenshot with full_page = not --no-full-page,
\* page.close, each made only after the one before it returned; the
\* screenshot is never taken before the navigation has returned.
C10_SingleForwardPass ==
    /\ \A i, j \in DOMAIN calls :
         i < j => Rank(calls[i].op) < Rank(calls[j].op)
    /\ \A i, j \in DOMAIN calls :
         (i < j /\ InCapture(calls[j].op)) => calls[i].ok
    /\ Called("goto") =>
         /\ Returned("new_page")
         /\ page.viewport =
              <<[width |-> args[1].width, height |-> args[1].height]>>
         /\ page.url = <<[scheme |-> "file", path |-> html_path[1]]>>
         /\ html_path[1].abs
         /\ html_path[1].name = argv.html_path.name
         /\ page.wait_until = <<"networkidle">>
    /\ Called("wait_for_timeout") =>
         /\ Returned("goto")
         /\ args[1].delay > 0
         /\ argv.delay = <<"0.0004">> => page.timeout = <<0>>
         /\ argv.delay = <<"2.5">> => page.timeout = <<2500>>
    /\ Called("screenshot") =>
         /\ Returned("goto")
         /\ Called("wait_for_timeout") <=> args[1].delay > 0
         /\ page.full_page = <<~argv.no_full_page>>
    /\ Called("page.close") => Returned("screenshot")

\* a complete capture with a pause shorter than a millisecond
C10_Witness ==
    /\ Returned("page.close")
    /\ Returned("wait_for_timeout")
    /\ page.timeout = <<0>>
    /\ Called("install")
    /\ page.full_page = <<FALSE>>

====
